---- MODULE Spec2Model ----
(***************************************************************************)
(* Per-turn orchestration core of the welfare-policy assistant:            *)
(*   session_orchestrator.orchestrate  (Session Lifecycle Controller)       *)
(*   info_extractor.extract            (Structured Context Extractor)      *)
(*   retrieval_planner.plan            (Retrieval Planner)                 *)
(* The Turn State is the set of variables below; each node is one action   *)
(* whose returned keys overwrite the Turn State (the state is threaded     *)
(* into the next call).                                                    *)
(*                                                                         *)
(* Encodings of Python values:                                             *)
(*   None / absent key        <<>>          (None)                         *)
(*   a present value x        <<x>>         (Some(x))                      *)
(*   str                      a sequence of one-character strings          *)
(*   dict with string keys    a function whose DOMAIN is the key set       *)
(*   ISO timestamp            [kind, t] (see TimestampKinds)               *)
(*   confidence (float 0..1)  an integer percentage 0..100                 *)
(***************************************************************************)
EXTENDS Integers, Sequences, FiniteSets, TLC

VARIABLES
    \* ---- Turn State ----
    session_id,            \* [kind, name, t]
    started_at,            \* [kind, t]
    last_activity_at,      \* [kind, t]
    turn_count,            \* None or Some(int)
    end_session,           \* BOOLEAN
    messages,              \* trace log: sequence of [role, content, meta]
    user_input,            \* None or Some(text)
    router,                \* None or Some(dict)
    ephemeral_profile,     \* None or Some(dict field -> [value, confidence])
    ephemeral_collection,  \* [shape, triples]
    profile_id,            \* None or Some(int)
    user_action,           \* "none", "save", "reset_save" or "reset_drop"
    retrieval,             \* None or Some([used_rag, profile_ctx, ...])
    rag_snippets,          \* None or Some(list of snippets)
    \* ---- environment ----
    now,                   \* wall clock, in seconds
    \* ---- observation of the calls made so far ----
    n_orch,                \* number of orchestrate invocations
    n_extract,             \* number of extract invocations
    llm_calls,             \* number of structured-extraction model calls
    raised,                \* the last invocation raised to its caller
    last                   \* inputs and path of the last invocation

vars == <<session_id, started_at, last_activity_at, turn_count, end_session,
          messages, user_input, router, ephemeral_profile,
          ephemeral_collection, profile_id, user_action, retrieval,
          rag_snippets, now,
          n_orch, n_extract, llm_calls, raised, last>>

turnStateVars == <<session_id, started_at, last_activity_at, turn_count,
                   end_session, messages, user_input, router,
                   ephemeral_profile, ephemeral_collection, profile_id,
                   user_action,
                   retrieval, rag_snippets>>

----------------------------------------------------------------------------
(* Python option values *)

None == <<>>

Some(x) == <<x>>

IsNone(o) == o = <<>>

Val(o) == o[1]

\* `o or d`
OrElse(o, d) == IF o = <<>> THEN d ELSE o[1]

----------------------------------------------------------------------------
(* Bounds of the exploration *)

\* orchestrate invocations per session
MaxInvocations == 5

\* largest clock advance between two invocations, in seconds
MaxClockStep == 2

----------------------------------------------------------------------------
(* session_orchestrator.py *)

\* SESSION_IDLE_TIMEOUT_SEC, here configured to 2 seconds (default 900)
IDLE_TIMEOUT_SEC == 2

\* SESSION_MAX_TURNS, here configured to 3 turns (default 128)
MAX_TURNS == 3

\* SESSION_MAX_DURATION_SEC, here configured to 4 seconds (default 7200)
MAX_DURATION_SEC == 4

\* Shapes a timestamp key of the Turn State can have:
\*   "none"   absent / None / empty string
\*   "nonstr" a truthy value that is not a string (dt.replace raises)
\*   "bad"    a string datetime.fromisoformat rejects
\*   "naive"  an ISO string without a timezone offset
\*   "aware"  an ISO string with an offset (or a trailing Z)
TimestampKinds == {"none", "nonstr", "bad", "naive", "aware"}

NoTimestamp == [kind |-> "none", t |-> 0]

\* datetime.now(timezone.utc).isoformat()
_now_iso(clock) == [kind |-> "aware", t |-> clock]

\* a parser that accepts no timestamp at all
_parse_iso_rejecting(dt) == None

\* _parse_iso: None for absent or unparseable input, else the datetime
\* ([aware, t]); a string without offset parses to a naive datetime.
_parse_iso(dt) ==
    IF dt.kind = "none" THEN None
    ELSE IF dt.kind \in {"nonstr", "bad"} THEN None
    ELSE Some([aware |-> dt.kind = "aware", t |-> dt.t])

\* _append_tool_log (created_at is not modelled: no logic reads it)
_append_tool_log(msgs, text, meta) ==
    Append(msgs, [role |-> "tool", content |-> text, meta |-> meta])

\* Shapes of the session_id key:
\*   "none"   absent / None / ""          "blank"  whitespace only
\*   "given"  a non-blank id              "padded" a non-blank id with
\*   "gen"    an id synthesized at time t          surrounding whitespace
SessionIdKinds == {"none", "blank", "given", "padded", "gen"}

NoSessionId == [kind |-> "none", name |-> "", t |-> 0]

\* (state.get("session_id") or "").strip()
StripSessionId(sid) ==
    IF sid.kind \in {"none", "blank"} THEN NoSessionId
    ELSE IF sid.kind = "padded" THEN [sid EXCEPT !.kind = "given"]
    ELSE sid

\* f"sess-{datetime.now(timezone.utc).strftime('%Y%m%d-%H%M%S-%f')}"
GenerateSessionId(clock) == [kind |-> "gen", name |-> "sess", t |-> clock]

\* a turn counter that stops counting once the turn limit is reached
NextTurnCount_capped(tc) ==
    IF OrElse(tc, 0) >= MAX_TURNS THEN OrElse(tc, 0) ELSE OrElse(tc, 0) + 1

\* a turn counter that starts over once the turn limit is reached
NextTurnCount_restarting(tc) ==
    IF OrElse(tc, 0) >= MAX_TURNS THEN 1 ELSE OrElse(tc, 0) + 1

\* turn_count = int(state.get("turn_count") or 0); turn_count += 1
NextTurnCount(tc) == OrElse(tc, 0) + 1

\* an end_reasons list that also enforces the idle limit
EndReasons_with_idle(turn, duration) ==
    (IF turn >= MAX_TURNS THEN <<"max_turns reached">> ELSE <<>>)
    \o (IF duration >= MAX_DURATION_SEC
        THEN <<"max_duration reached">> ELSE <<>>)
    \o (IF duration >= IDLE_TIMEOUT_SEC
        THEN <<"idle_timeout reached">> ELSE <<>>)

\* limits compared with > instead of >=
EndReasons_strict(turn, duration) ==
    (IF turn > MAX_TURNS THEN <<"max_turns reached">> ELSE <<>>)
    \o (IF duration > MAX_DURATION_SEC
        THEN <<"max_duration reached">> ELSE <<>>)

\* the end_reasons list built from the two limits
EndReasons(turn, duration) ==
    (IF turn >= MAX_TURNS THEN <<"max_turns reached">> ELSE <<>>)
    \o (IF duration >= MAX_DURATION_SEC
        THEN <<"max_duration reached">> ELSE <<>>)

\* orchestrate(state), called when the clock has advanced by d
Orchestrate(d) ==
    /\ n_orch < MaxInvocations
    /\ now' = now + d
    /\ n_orch' = n_orch + 1
    /\ last' = [op |-> "orchestrate", step |-> d,
                sid_in |-> session_id, started_in |-> started_at,
                last_activity_in |-> last_activity_at,
                turn_in |-> turn_count, end_in |-> end_session,
                msgs_in |-> messages]
    /\ LET clock == now + d
           sid0 == StripSessionId(session_id)
           sid == IF sid0.kind = "none" THEN GenerateSessionId(clock)
                  ELSE sid0
           msgs1 == IF sid0.kind = "none"
                    THEN _append_tool_log(messages,
                           "[session_orchestrator] session_id generated",
                           [sid |-> sid])
                    ELSE messages
           parsed == _parse_iso(started_at)
           started_dt == IF IsNone(parsed)
                         THEN [aware |-> TRUE, t |-> clock] ELSE Val(parsed)
           started_at_iso == IF IsNone(parsed) THEN _now_iso(clock)
                             ELSE started_at
           msgs2 == IF IsNone(parsed)
                    THEN _append_tool_log(msgs1,
                           "[session_orchestrator] started_at initialized",
                           <<>>)
                    ELSE msgs1
           turn == NextTurnCount(turn_count)
           duration == clock - started_dt.t
           end_reasons == EndReasons(turn, duration)
           ended == end_reasons # <<>>
           msgs3 == IF ended
                    THEN _append_tool_log(msgs2,
                           "[session_orchestrator] end_session=True",
                           [reasons |-> end_reasons])
                    ELSE _append_tool_log(msgs2,
                           "[session_orchestrator] tick",
                           [turn_count |-> turn,
                            since_start_sec |-> duration,
                            max_turns |-> MAX_TURNS,
                            max_duration_sec |-> MAX_DURATION_SEC,
                            idle_timeout_sec |-> IDLE_TIMEOUT_SEC])
       IN IF ~started_dt.aware
          THEN \* now - started_dt: an offset-aware minus an offset-naive
               \* datetime raises TypeError; nothing is returned
               /\ raised' = TRUE
               /\ UNCHANGED turnStateVars
          ELSE /\ raised' = FALSE
               /\ session_id' = sid
               /\ started_at' = started_at_iso
               /\ last_activity_at' = _now_iso(clock)
               /\ turn_count' = Some(turn)
               /\ end_session' = ended
               /\ messages' = msgs3
               /\ UNCHANGED <<user_input, router, ephemeral_profile,
                              ephemeral_collection, profile_id,
                              user_action, retrieval,
                              rag_snippets>>
    /\ UNCHANGED <<n_extract, llm_calls>>

----------------------------------------------------------------------------
(* Text helpers (Python str methods on character sequences) *)

IsSpace(c) == c \in {" ", "\n"}

RECURSIVE LStrip(_)
LStrip(s) == IF s # <<>> /\ IsSpace(Head(s)) THEN LStrip(Tail(s)) ELSE s

RECURSIVE RStrip(_)
RStrip(s) ==
    IF s # <<>> /\ IsSpace(s[Len(s)])
    THEN RStrip(SubSeq(s, 1, Len(s) - 1)) ELSE s

\* str.strip()
Strip(s) == RStrip(LStrip(s))

\* `word in text`
Contains(text, word) ==
    \E i \in 1..(Len(text) - Len(word) + 1) :
        SubSeq(text, i, i + Len(word) - 1) = word

----------------------------------------------------------------------------
(* info_extractor.py *)

\* the fields of ExtractedProfile, in declaration order
ProfileFieldOrder ==
    <<"age", "birth_year", "sex", "region_gu", "income_median_ratio",
      "basic_benefit_type", "nhis_qualification", "disability_grade",
      "ltci_grade", "pregnancy_status">>

FieldNames == {ProfileFieldOrder[i] : i \in 1..Len(ProfileFieldOrder)}

EmptyDict == <<>>

\* {"triples": []}
EmptyTriplesDict == [shape |-> "dict", triples |-> <<>>]

\* Shapes of the ephemeral_collection key:
\*   "none" absent / None        "emptydict" {}
\*   "dict" {"triples": [...]}   "list"      a bare list of triples
\*   "malformed" a truthy value that is neither a mapping nor a list
\*               (a non-empty string, a number)
CollectionShapes == {"none", "emptydict", "dict", "list", "malformed"}

\* truthiness of the stored collection value
CollectionTruthy(coll) ==
    \/ coll.shape = "dict"
    \/ coll.shape = "list" /\ coll.triples # <<>>
    \/ coll.shape = "malformed"

\* state.get("ephemeral_collection") or {"triples": []}
CollectionOrDefault(coll) ==
    IF CollectionTruthy(coll) THEN coll ELSE EmptyTriplesDict

\* dict(state.get("ephemeral_collection") or {"triples": []}) raises
\* ValueError on a non-empty list of triples (a 6-key dict is not a
\* key/value pair), and ValueError or TypeError on a string or a number
DictCopyRaises(coll) ==
    CollectionOrDefault(coll).shape \in {"list", "malformed"}

\* dict(state.get("ephemeral_collection") or {"triples": []}), when it
\* does not raise
DictCopy(coll) ==
    [shape |-> "dict", triples |-> CollectionOrDefault(coll).triples]

\* ProfileField / Triple schema constraint: confidence ge=0.0, le=1.0
ValidConfidence(c) == c >= 0 /\ c <= 100

\* ExtractResult(**data): every present profile field and every triple
\* satisfies the schema
SchemaValid(data) ==
    /\ \A f \in FieldNames :
          data.profile[f] # None => ValidConfidence(Val(data.profile[f]).confidence)
    /\ \A i \in 1..Len(data.triples) : ValidConfidence(data.triples[i].confidence)

\* _call_info_llm(text) on the model response resp:
\*   resp.kind = "network_error"   client.chat.completions.create raises
\*   resp.kind = "malformed_json"  json.loads raises
\*   resp.kind = "json"            resp.data is validated by ExtractResult
_call_info_llm(resp) ==
    IF resp.kind = "network_error"
    THEN [ok |-> FALSE, error |-> "APIConnectionError"]
    ELSE IF resp.kind = "malformed_json"
    THEN [ok |-> FALSE, error |-> "JSONDecodeError"]
    ELSE IF ~SchemaValid(resp.data)
    THEN [ok |-> FALSE, error |-> "InfoExtractor validation failed"]
    ELSE [ok |-> TRUE, profile |-> resp.data.profile,
          triples |-> resp.data.triples]

\* set_field writes the field: field is not None and its value is
\* neither None nor ""
FieldIsSet(field) ==
    /\ field # None
    /\ Val(field).value # None
    /\ Val(Val(field).value) # <<>>

\* a merge that keeps the stored entry unless the new confidence is higher
_merge_ephemeral_profile_keep_confident(old, extracted, save_profile) ==
    IF ~save_profile THEN old
    ELSE LET written == {f \in FieldNames :
                /\ FieldIsSet(extracted[f])
                /\ f \in DOMAIN old =>
                      Val(extracted[f]).confidence > old[f].confidence}
         IN [f \in (DOMAIN old) \cup written |->
                IF f \in written
                THEN [value |-> Val(extracted[f]).value,
                      confidence |-> Val(extracted[f]).confidence]
                ELSE old[f]]

\* a merge that averages the new confidence with the stored one
_merge_ephemeral_profile_blend(old, extracted, save_profile) ==
    IF ~save_profile THEN old
    ELSE LET written == {f \in FieldNames : FieldIsSet(extracted[f])}
         IN [f \in (DOMAIN old) \cup written |->
                IF f \in written
                THEN [value |-> Val(extracted[f]).value,
                      confidence |->
                        IF f \in DOMAIN old
                        THEN (old[f].confidence
                              + Val(extracted[f]).confidence) \div 2
                        ELSE Val(extracted[f]).confidence]
                ELSE old[f]]

\* _merge_ephemeral_profile(old, extracted, save_profile)
_merge_ephemeral_profile(old, extracted, save_profile) ==
    IF ~save_profile THEN old
    ELSE LET written == {f \in FieldNames : FieldIsSet(extracted[f])}
         IN [f \in (DOMAIN old) \cup written |->
                IF f \in written
                THEN [value |-> Val(extracted[f]).value,
                      confidence |-> Val(extracted[f]).confidence]
                ELSE old[f]]

\* the existing_triples of _merge_ephemeral_collection
ExistingTriples(old) ==
    IF old.shape \in {"dict", "list"} THEN old.triples ELSE <<>>

\* the triples of new that are not already in seen, in order
RECURSIVE Unseen(_, _)
Unseen(new, seen) ==
    IF new = <<>> THEN <<>>
    ELSE IF \E i \in 1..Len(seen) : seen[i] = Head(new)
    THEN Unseen(Tail(new), seen)
    ELSE <<Head(new)>> \o Unseen(Tail(new), Append(seen, Head(new)))

\* a merge that appends whatever the save flag says
_merge_ephemeral_collection_unflagged(old, extracted, save_collection) ==
    [shape |-> "dict", triples |-> ExistingTriples(old) \o extracted]

\* a merge that drops triples already in the list
_merge_ephemeral_collection_dedup(old, extracted, save_collection) ==
    IF ~save_collection
    THEN [shape |-> "dict", triples |-> ExistingTriples(old)]
    ELSE [shape |-> "dict",
          triples |-> ExistingTriples(old)
                      \o Unseen(extracted, ExistingTriples(old))]

\* _merge_ephemeral_collection(old, extracted, save_collection)
_merge_ephemeral_collection(old, extracted, save_collection) ==
    IF ~save_collection
    THEN [shape |-> "dict", triples |-> ExistingTriples(old)]
    ELSE [shape |-> "dict", triples |-> ExistingTriples(old) \o extracted]

\* bool(router_info.get(key))
RouterFlag(router_info, key) ==
    IF key \in DOMAIN router_info THEN router_info[key] = TRUE ELSE FALSE

\* extract(state) for the turn's user_input and router decision, with
\* resp the answer the structured-extraction model would give
ExtractBody(input, decision, resp) ==
    LET text == Strip(OrElse(input, <<>>))
        router_info == OrElse(decision, EmptyDict)
        save_profile == RouterFlag(router_info, "save_profile")
        save_collection == RouterFlag(router_info, "save_collection")
        noop == ~save_profile /\ ~save_collection
        called == ~noop /\ text # <<>>
        result == _call_info_llm(resp)
        path == IF noop THEN "skip"
                ELSE IF text = <<>> THEN "empty"
                ELSE IF result.ok THEN "ok" ELSE "error"
        old_profile == OrElse(ephemeral_profile, EmptyDict)
        old_collection == CollectionOrDefault(ephemeral_collection)
        merged_profile ==
            _merge_ephemeral_profile(old_profile, result.profile, save_profile)
        merged_collection ==
            _merge_ephemeral_collection(old_collection, result.triples,
                                        save_collection)
        entry ==
            IF path = "skip"
            THEN [role |-> "tool",
                  content |-> "[info_extractor] skip (save_profile=False, save_collection=False)",
                  meta |-> [router |-> router_info]]
            ELSE IF path = "empty"
            THEN [role |-> "tool",
                  content |-> "[info_extractor] empty user_input; nothing extracted",
                  meta |-> [router |-> router_info]]
            ELSE IF path = "ok"
            THEN [role |-> "tool",
                  content |-> "[info_extractor] extracted profile/collection",
                  meta |-> [router |-> router_info,
                            profile_fields |->
                                Cardinality({f \in DOMAIN merged_profile :
                                    "value" \in DOMAIN merged_profile[f]}),
                            triples_total |-> Len(merged_collection.triples)]]
            ELSE [role |-> "tool",
                  content |-> "[info_extractor] error; keep previous state",
                  meta |-> [error |-> result.error, router |-> router_info]]
    IN /\ llm_calls' = IF called THEN llm_calls + 1 ELSE llm_calls
       /\ n_extract' = n_extract + 1
       /\ last' = [op |-> "extract", path |-> path,
                   text |-> text, called |-> called,
                   result |-> IF called THEN result ELSE [ok |-> FALSE],
                   save_profile |-> save_profile,
                   save_collection |-> save_collection,
                   profile_in |-> ephemeral_profile,
                   collection_in |-> ephemeral_collection,
                   msgs_in |-> messages, llm_calls_in |-> llm_calls]
       /\ IF path = "ok"
          THEN /\ raised' = FALSE
               /\ ephemeral_profile' = Some(merged_profile)
               /\ ephemeral_collection' = merged_collection
               /\ messages' = Append(messages, entry)
          ELSE IF DictCopyRaises(ephemeral_collection)
          THEN \* the ValueError of dict(...) leaves the skip/empty branch,
               \* or the except handler, and reaches the caller
               /\ raised' = TRUE
               /\ UNCHANGED <<ephemeral_profile, ephemeral_collection,
                              messages>>
          ELSE /\ raised' = FALSE
               /\ ephemeral_profile' = Some(old_profile)
               /\ ephemeral_collection' = DictCopy(ephemeral_collection)
               /\ messages' = Append(messages, entry)

\* one turn through the Extractor: the turn's user_input and router
\* decision arrive on the Turn State, then extract(state) runs
ExtractTurn(input, decision, resp) ==
    /\ user_input' = input
    /\ router' = decision
    /\ ExtractBody(input, decision, resp)
    /\ UNCHANGED <<session_id, started_at, last_activity_at, turn_count,
                   end_session, profile_id, user_action, retrieval,
                   rag_snippets, now,
                   n_orch>>

----------------------------------------------------------------------------
(* retrieval_planner.py: pure helpers *)

\* The characters of the model's texts, by class. A Hangul syllable is
\* written as its romanization ("ja" "gyeok" is the two-syllable word for
\* eligibility); every other character (space, newline, punctuation)
\* separates tokens.
HangulChars ==
    {"ja", "gyeok", "ji", "won", "hye", "taek", "dae", "sang", "yo", "geon",
     "geup", "yeo", "bon", "in", "bu", "dam", "jeo", "jang", "bo", "gwan",
     "gi", "rok", "geu", "ri", "go", "ha", "man", "geun", "de", "ga",
     "neung", "mun", "ui", "sin", "cheong", "iss", "na", "hae", "dang",
     "gang", "nam", "gu", "nae", "yong"}

UpperChars == {"A", "H", "I"}

LowerChars == {"a", "h", "i"}

DigitChars == {"0", "1", "2", "6", "8"}

\* the character class of Hangul syllables, A-Z, a-z and 0-9
IsTokenChar(c) ==
    c \in HangulChars \cup UpperChars \cup LowerChars \cup DigitChars

\* str.lower() on one character
LowerChar(c) ==
    CASE c = "A" -> "a"
      [] c = "H" -> "h"
      [] c = "I" -> "i"
      [] OTHER -> c

\* a lower() that leaves the token as it is
Lower_as_written(s) == s

\* str.lower()
Lower(s) == [i \in 1..Len(s) |-> LowerChar(s[i])]

\* the longest prefix of s made of token characters
RECURSIVE TokenPrefix(_)
TokenPrefix(s) ==
    IF s # <<>> /\ IsTokenChar(Head(s))
    THEN <<Head(s)>> \o TokenPrefix(Tail(s)) ELSE <<>>

\* re.findall over that class: the maximal runs, in order
RECURSIVE FindTokens(_)
FindTokens(s) ==
    IF s = <<>> THEN <<>>
    ELSE IF IsTokenChar(Head(s))
    THEN LET tok == TokenPrefix(s)
         IN <<tok>> \o FindTokens(SubSeq(s, Len(tok) + 1, Len(s)))
    ELSE FindTokens(Tail(s))

\* the stop set of extract_keywords
StopWords ==
    {<<"geu", "ri", "go">>, <<"ha", "ji", "man">>, <<"geun", "de">>,
     <<"ga", "neung">>, <<"mun", "ui">>, <<"sin", "cheong">>, <<"yeo", "bu">>,
     <<"iss", "na", "yo">>, <<"hae", "dang">>}

InSeq(x, seq) == \E i \in 1..Len(seq) : seq[i] = x

\* the for loop of extract_keywords over the remaining tokens, with out
\* the keywords collected so far (seen holds the same elements as out)
RECURSIVE KeywordLoop(_, _, _)
KeywordLoop(tokens, out, max_k) ==
    IF tokens = <<>> THEN out
    ELSE LET t == Lower(Head(tokens))
         IN IF Len(t) >= 2 /\ t \notin StopWords /\ ~InSeq(t, out)
            THEN IF Len(out) + 1 >= max_k
                 THEN Append(out, t)                       \* break
                 ELSE KeywordLoop(Tail(tokens), Append(out, t), max_k)
            ELSE KeywordLoop(Tail(tokens), out, max_k)

\* extract_keywords(text, max_k)
extract_keywords(text, max_k) ==
    IF text = <<>> THEN <<>>
    ELSE KeywordLoop(FindTokens(text), <<>>, max_k)

\* the max_k and top_k plan passes
DefaultMaxKeywords == 8

DefaultTopK == 8

\* A profile entry is [value, confidence] (the {value: ...} shape),
\* [scalar] (a bare string) or [null] (the key holds None).
\* dict.get(key)
ProfileGet(profile, key) ==
    IF key \in DOMAIN profile /\ "null" \notin DOMAIN profile[key]
    THEN Some(profile[key]) ELSE None

\* a sanitizer that hands on what is left of a blank value
_sanitize_region_keep_blank(region_value) ==
    IF region_value = None THEN None
    ELSE LET entry == Val(region_value)
             unwrapped == IF "value" \in DOMAIN entry THEN entry.value
                          ELSE Some(entry.scalar)
         IN IF unwrapped = None THEN None
            ELSE Some(Strip(Val(unwrapped)))

\* _sanitize_region(region_value)
_sanitize_region(region_value) ==
    IF region_value = None THEN None
    ELSE LET entry == Val(region_value)
             unwrapped == IF "value" \in DOMAIN entry THEN entry.value
                          ELSE Some(entry.scalar)
         IN IF unwrapped = None THEN None
            ELSE IF Strip(Val(unwrapped)) = <<>> THEN None
            ELSE Some(Strip(Val(unwrapped)))

\* the region filter _hybrid_search_documents derives from merged_profile
RegionFilter(merged_profile) ==
    IF merged_profile = None \/ Val(merged_profile) = EmptyDict THEN None
    ELSE LET primary == ProfileGet(Val(merged_profile), "residency_sgg_code")
             region_val == IF primary = None
                           THEN ProfileGet(Val(merged_profile), "region_gu")
                           ELSE primary
         IN _sanitize_region(region_val)

\* the trigger words of the fallback heuristic
TriggerWords ==
    {<<"ja", "gyeok">>, <<"ji", "won">>, <<"hye", "taek">>, <<"dae", "sang">>,
     <<"yo", "geon">>, <<"geup", "yeo">>, <<"bon", "in", "bu", "dam">>}

\* a gate that lets the trigger words override the router's flag
_decide_use_rag_heuristic_first(router_info, query_text) ==
    IF router_info = EmptyDict THEN TRUE
    ELSE IF \E k \in TriggerWords : Contains(Lower(query_text), k) THEN TRUE
    ELSE IF "use_rag" \in DOMAIN router_info
    THEN router_info["use_rag"] = TRUE
    ELSE FALSE

\* a gate without the keyword fallback
_decide_use_rag_no_fallback(router_info, query_text) ==
    IF router_info = EmptyDict THEN TRUE
    ELSE IF "use_rag" \in DOMAIN router_info
    THEN router_info["use_rag"] = TRUE
    ELSE FALSE

\* _decide_use_rag(router, query_text); router is the dict plan passes
\* (state.get("router") or {})
_decide_use_rag(router_info, query_text) ==
    IF router_info = EmptyDict THEN TRUE
    ELSE IF "use_rag" \in DOMAIN router_info
    THEN router_info["use_rag"] = TRUE
    ELSE \E k \in TriggerWords : Contains(Lower(query_text), k)

\* the save-intent words of plan
SaveWords == {<<"jeo", "jang">>, <<"bo", "gwan">>, <<"gi", "rok">>}

\* the advisory snippet plan appends
PersistNotice ==
    [doc_id |-> "system:conversation_persist",
     title |-> "conversation persistence notice",
     snippet |-> "the persist pipeline runs when the conversation ends",
     score |-> Some(100)]

\* (x or "").strip() if isinstance(x, str) else None
CleanText(x) == IF x = None THEN None ELSE Some(Strip(Val(x)))

\* a cleaned column is truthy: a non-empty string
Truthy(x) == x # None /\ Val(x) # <<>>

RequirementsLabel == <<"[", "sin", "cheong", " ", "yo", "geon", "]", "\n">>

BenefitsLabel == <<"[", "ji", "won", " ", "nae", "yong", "]", "\n">>

\* a snippet text that puts the benefits section first
SnippetText_benefits_first(requirements, benefits) ==
    LET req == IF Truthy(requirements)
               THEN RequirementsLabel \o Val(requirements) ELSE <<>>
        ben == IF Truthy(benefits)
               THEN BenefitsLabel \o Val(benefits) ELSE <<>>
    IN Strip(IF req # <<>> /\ ben # <<>>
             THEN ben \o <<"\n", "\n">> \o req
             ELSE req \o ben)

\* "\n\n".join(snippet_lines).strip()
SnippetText(requirements, benefits) ==
    LET req == IF Truthy(requirements)
               THEN RequirementsLabel \o Val(requirements) ELSE <<>>
        ben == IF Truthy(benefits)
               THEN BenefitsLabel \o Val(benefits) ELSE <<>>
    IN Strip(IF req # <<>> /\ ben # <<>>
             THEN req \o <<"\n", "\n">> \o ben
             ELSE req \o ben)

\* one element of results, built from row r
\* (id, title, requirements, benefits, region, url, similarity)
ResultOfRow(r) ==
    [doc_id |-> r.id,
     title |-> CleanText(r.title),
     requirements |-> CleanText(r.requirements),
     benefits |-> CleanText(r.benefits),
     region |-> CleanText(r.region),
     url |-> CleanText(r.url),
     similarity |-> r.similarity,
     snippet |-> SnippetText(CleanText(r.requirements),
                             CleanText(r.benefits))]

\* a key order that ranks a missing similarity above every number
KeyGreater_missing_first(a, b) ==
    \/ a.similarity = None /\ b.similarity # None
    \/ /\ a.similarity # None /\ b.similarity # None
       /\ Val(a.similarity) > Val(b.similarity)

\* the sort key (similarity is not None, similarity) of a is greater
KeyGreater(a, b) ==
    \/ a.similarity # None /\ b.similarity = None
    \/ /\ a.similarity # None /\ b.similarity # None
       /\ Val(a.similarity) > Val(b.similarity)

\* x inserted behind every element whose key is not smaller than x's
RECURSIVE InsertDesc(_, _)
InsertDesc(x, sorted) ==
    IF sorted = <<>> THEN <<x>>
    ELSE IF KeyGreater(x, Head(sorted)) THEN <<x>> \o sorted
    ELSE <<Head(sorted)>> \o InsertDesc(x, Tail(sorted))

\* results.sort(key=..., reverse=True): stable, descending
RECURSIVE SortDesc(_)
SortDesc(results) ==
    IF results = <<>> THEN <<>>
    ELSE InsertDesc(results[Len(results)],
                    SortDesc(SubSeq(results, 1, Len(results) - 1)))

\* the snippet_entry built from one element of results
SnippetEntry(r) ==
    [doc_id |-> r.doc_id,
     title |-> r.title,
     source |-> IF Truthy(r.region) THEN Val(r.region)
                ELSE <<"p", "o", "l", "i", "c", "y", "_", "d", "b">>,
     snippet |-> IF r.snippet # <<>> THEN r.snippet
                 ELSE IF Truthy(r.benefits) THEN Val(r.benefits)
                 ELSE IF Truthy(r.requirements) THEN Val(r.requirements)
                 ELSE <<>>,
     score |-> r.similarity]
    @@ (IF Truthy(r.region) THEN [region |-> Val(r.region)] ELSE <<>>)
    @@ (IF Truthy(r.url) THEN [url |-> Val(r.url)] ELSE <<>>)
    @@ (IF Truthy(r.requirements)
        THEN [requirements |-> Val(r.requirements)] ELSE <<>>)
    @@ (IF Truthy(r.benefits) THEN [benefits |-> Val(r.benefits)] ELSE <<>>)

\* the rows the store returns for the query: the candidate rows that
\* satisfy WHERE TRIM(d.region) = region, cut by LIMIT
RECURSIVE SelectRows(_, _)
SelectRows(candidates, region_filter) ==
    IF candidates = <<>> THEN <<>>
    ELSE LET r == Head(candidates)
             keep == \/ region_filter = None
                     \/ r.region # None /\ Strip(Val(r.region)) = Val(region_filter)
         IN (IF keep THEN <<r>> ELSE <<>>)
            \o SelectRows(Tail(candidates), region_filter)

Limit(rows, k) == SubSeq(rows, 1, IF Len(rows) < k THEN Len(rows) ELSE k)

\* the snippets _hybrid_search_documents builds from the fetched rows
SnippetsOfRows(rows) ==
    LET results == [i \in 1..Len(rows) |-> ResultOfRow(rows[i])]
        sorted == SortDesc(results)
    IN [i \in 1..Len(sorted) |-> SnippetEntry(sorted[i])]

----------------------------------------------------------------------------
(* Sample triples and profile fields the explorations draw from *)

T1 == [subject |-> "self", predicate |-> "HAS_CONDITION",
       object |-> "diabetes", code_system |-> Some("KCD7"),
       code |-> Some("E11"), confidence |-> 95]

T2 == [subject |-> "spouse", predicate |-> "surgery",
       object |-> "2024-06", code_system |-> None, code |-> None,
       confidence |-> 50]

Age68 == [value |-> Some(<<"6", "8">>), confidence |-> 95]

Age70 == [value |-> Some(<<"7", "0">>), confidence |-> 50]

NullField == [value |-> None, confidence |-> 30]

BlankField == [value |-> Some(<<>>), confidence |-> 30]

\* confidence 1.5: rejected by the schema
OverconfidentField == [value |-> Some(<<"6", "8">>), confidence |-> 150]

----------------------------------------------------------------------------
(* merge_utils.py (merge_profile, merge_collection), as the specification
   describes context fusion *)

\* merge_profile(persisted, ephemeral): ephemeral values override
\* persisted values field by field; either side may be absent
merge_profile(db_profile, eph_profile) ==
    LET db == OrElse(db_profile, EmptyDict)
        eph == OrElse(eph_profile, EmptyDict)
    IN Some([f \in (DOMAIN db) \cup (DOMAIN eph) |->
                IF f \in DOMAIN eph THEN eph[f] ELSE db[f]])

\* merge_collection(persisted, ephemeral): the persisted triples followed
\* by the ephemeral triples; either side may be absent
merge_collection(db_collection, eph_collection) ==
    [shape |-> "dict",
     triples |-> OrElse(db_collection, <<>>) \o eph_collection.triples]

----------------------------------------------------------------------------
(* retrieval_planner.py: plan *)

\* outcome of a persisted-context fetch that is not issued
NotFetched == [kind |-> "skipped"]

\* outcomes of fetch_profile_from_db
FetchProfileOutcomes ==
    {[kind |-> "raise"],
     [kind |-> "value", value |-> None],
     [kind |-> "value",
      value |-> Some([region_gu |-> [scalar |-> <<"gang", "nam">>],
                      age |-> [scalar |-> <<"6", "8">>]])]}

\* outcomes of fetch_collections_from_db
FetchCollectionOutcomes ==
    {[kind |-> "raise"],
     [kind |-> "value", value |-> None],
     [kind |-> "value", value |-> Some(<<T2>>)]}

Row(id, requirements, benefits, region, similarity) ==
    [id |-> id, title |-> Some(<<"t">>), requirements |-> requirements,
     benefits |-> benefits, region |-> region,
     url |-> IF similarity = None THEN None ELSE Some(<<"u">>),
     similarity |-> similarity]

Gangnam == <<"gang", "nam">>

\* candidate rows of the documents/embeddings join, in the order the
\* store yields them
CandidateRows ==
    {<<>>,
     <<Row("1", Some(<<"r">>), Some(<<"b">>), Some(Gangnam), Some(90)),
       Row("2", None, Some(<<" ", "b">>), Some(<<"gang", "nam", " ">>), Some(70)),
       Row("3", Some(<<"r">>), None, Some(<<"gu">>), Some(50))>>,
     <<Row("4", None, None, None, None),
       Row("5", Some(<<" ">>), Some(<<>>), Some(<<" ">>), Some(50)),
       Row("6", Some(<<"r">>), Some(<<"b">>), Some(Gangnam), None),
       Row("7", Some(<<"r">>), Some(<<"b">>), None, Some(90)),
       Row("8", None, None, Some(Gangnam), Some(50))>>}

\* outcomes of the connection and query of the vector search
SearchOutcomes ==
    {[kind |-> "raise"]} \cup
    {[kind |-> "rows", candidates |-> c] : c \in CandidateRows}

NotSearched == [kind |-> "skipped"]

\* a _hybrid_search_documents that also drops the keywords when the
\* embedding fails
_hybrid_search_documents_no_keywords(query_text, merged_profile, top_k, embed_ok, search) ==
    LET stripped == Strip(query_text)
        keywords == extract_keywords(stripped, DefaultMaxKeywords)
        region_filter == RegionFilter(merged_profile)
        rows == Limit(SelectRows(search.candidates, region_filter), top_k)
    IN IF stripped = <<>>
       THEN [raises |-> FALSE, snippets |-> <<>>, keywords |-> <<>>,
             region_filter |-> None, rows |-> <<>>]
       ELSE IF ~embed_ok
       THEN [raises |-> FALSE, snippets |-> <<>>, keywords |-> <<>>,
             region_filter |-> region_filter, rows |-> <<>>]
       ELSE IF search.kind = "raise"
       THEN [raises |-> TRUE, region_filter |-> region_filter]
       ELSE [raises |-> FALSE, snippets |-> SnippetsOfRows(rows),
             keywords |-> keywords, region_filter |-> region_filter,
             rows |-> rows]

\* _hybrid_search_documents(query_text, merged_profile, top_k), with
\* embed_ok telling whether _embed_text returns and search the outcome of
\* the connection and query; raises tells whether an exception leaves it
_hybrid_search_documents(query_text, merged_profile, top_k, embed_ok, search) ==
    LET stripped == Strip(query_text)
        keywords == extract_keywords(stripped, DefaultMaxKeywords)
        region_filter == RegionFilter(merged_profile)
        rows == Limit(SelectRows(search.candidates, region_filter), top_k)
    IN IF stripped = <<>>
       THEN [raises |-> FALSE, snippets |-> <<>>, keywords |-> <<>>,
             region_filter |-> None, rows |-> <<>>]
       ELSE IF ~embed_ok
       THEN [raises |-> FALSE, snippets |-> <<>>, keywords |-> keywords,
             region_filter |-> region_filter, rows |-> <<>>]
       ELSE IF search.kind = "raise"
       THEN [raises |-> TRUE, region_filter |-> region_filter]
       ELSE [raises |-> FALSE, snippets |-> SnippetsOfRows(rows),
             keywords |-> keywords, region_filter |-> region_filter,
             rows |-> rows]

\* a plan that hands the two profiles to the merge in the wrong order
ContextFusion_swapped(db_profile, eph_profile, db_collection, eph_collection) ==
    [merged_profile |-> merge_profile(eph_profile, db_profile),
     merged_collection |-> merge_collection(db_collection, eph_collection)]

\* merged_profile = merge_profile(db_profile, eph_profile) and
\* merged_collection = merge_collection(db_collection, eph_collection)
ContextFusion(db_profile, eph_profile, db_collection, eph_collection) ==
    [merged_profile |-> merge_profile(db_profile, eph_profile),
     merged_collection |-> merge_collection(db_collection, eph_collection)]

\* a plan that searches for every non-empty input
ShouldSearch_ungated(use_rag, query_text) == query_text # <<>>

\* if use_rag and query_text: the search branch of plan is taken
ShouldSearch(use_rag, query_text) == use_rag /\ query_text # <<>>

\* an injection that only looks at the end of the session
WithPersistNotice_only_on_end(rag_docs, end_requested, refers_to_save) ==
    IF end_requested THEN Append(rag_docs, PersistNotice) ELSE rag_docs

\* the advisory snippet is appended to rag_docs when the session ends or
\* the input refers to saving
WithPersistNotice(rag_docs, end_requested, refers_to_save) ==
    IF end_requested \/ refers_to_save
    THEN Append(rag_docs, PersistNotice) ELSE rag_docs

\* a plan whose search is not wrapped: the exception leaves the block
GuardedSearch_uncaught(query_text, hybrid) ==
    IF hybrid.raises
    THEN [raises |-> TRUE, rag_docs |-> <<>>, keywords |-> <<>>]
    ELSE [raises |-> FALSE, rag_docs |-> hybrid.snippets,
          keywords |-> hybrid.keywords]

\* a plan whose except branch leaves the keywords empty
GuardedSearch_no_keywords(query_text, hybrid) ==
    IF hybrid.raises
    THEN [raises |-> FALSE, rag_docs |-> <<>>, keywords |-> <<>>]
    ELSE [raises |-> FALSE, rag_docs |-> hybrid.snippets,
          keywords |-> hybrid.keywords]

\* the try/except of plan around _hybrid_search_documents: an exception
\* is caught, the documents are emptied and the keywords recomputed;
\* raises tells whether an exception leaves the block
GuardedSearch(query_text, hybrid) ==
    IF hybrid.raises
    THEN [raises |-> FALSE, rag_docs |-> <<>>,
          keywords |-> extract_keywords(query_text, DefaultMaxKeywords)]
    ELSE [raises |-> FALSE, rag_docs |-> hybrid.snippets,
          keywords |-> hybrid.keywords]

\* plan(state)
Plan ==
    LET query_text == OrElse(user_input, <<>>)
        router_info == OrElse(router, EmptyDict)
        fetching == profile_id # None
        use_rag == _decide_use_rag(router_info, query_text)
        searching == ShouldSearch(use_rag, query_text)
        \* _embed_text is reached
        embedding == searching /\ Strip(query_text) # <<>>
    IN \E fp \in (IF fetching THEN FetchProfileOutcomes ELSE {NotFetched}),
          fc \in (IF fetching THEN FetchCollectionOutcomes ELSE {NotFetched}),
          embed_ok \in (IF embedding THEN BOOLEAN ELSE {FALSE}) :
       \E search \in (IF embedding /\ embed_ok THEN SearchOutcomes
                      ELSE {NotSearched}) :
       LET db_profile == IF fp.kind = "value" THEN fp.value ELSE None
           db_collection == IF fc.kind = "value" THEN fc.value ELSE None
           end_requested == end_session
           refers_to_save == \E k \in SaveWords : Contains(query_text, k)
       IN \E fused \in {ContextFusion(db_profile, ephemeral_profile,
                                      db_collection, ephemeral_collection)} :
          \E merged_profile \in {fused.merged_profile},
             merged_collection \in {fused.merged_collection} :
          \E hybrid \in {IF searching
                         THEN _hybrid_search_documents(query_text,
                                  merged_profile, DefaultTopK, embed_ok, search)
                         ELSE \* the else branch of plan: keywords only
                              [raises |-> FALSE, snippets |-> <<>>,
                               keywords |-> extract_keywords(query_text,
                                                DefaultMaxKeywords),
                               region_filter |-> None, rows |-> <<>>]} :
          \E outcome \in {GuardedSearch(query_text, hybrid)} :
          LET rag_docs == WithPersistNotice(outcome.rag_docs, end_requested,
                                            refers_to_save)
          IN
          /\ IF outcome.raises
             THEN /\ raised' = TRUE
                  /\ UNCHANGED <<retrieval, rag_snippets>>
             ELSE /\ raised' = FALSE
                  /\ retrieval' = Some([used_rag |-> use_rag,
                                        profile_ctx |-> merged_profile,
                                        collection_ctx |-> merged_collection,
                                        rag_snippets |-> rag_docs,
                                        keywords |-> outcome.keywords])
                  /\ rag_snippets' = Some(rag_docs)
          /\ last' = [op |-> "plan",
                      fetch_profile |-> fp, fetch_collection |-> fc,
                      embed_called |-> embedding,
                      embed_failed |-> embedding /\ ~embed_ok,
                      search |-> search,
                      region_filter |-> hybrid.region_filter,
                      rows |-> IF ~hybrid.raises THEN hybrid.rows ELSE <<>>]
          /\ UNCHANGED <<session_id, started_at, last_activity_at,
                         turn_count, end_session, messages, user_input,
                         router, ephemeral_profile, ephemeral_collection,
                         profile_id, user_action, now, n_orch, n_extract,
                         llm_calls>>

----------------------------------------------------------------------------
(* Specification of one session driven through the Controller *)

NoCollection == [shape |-> "none", triples |-> <<>>]

UserMessage == [role |-> "user", content |-> "hello", meta |-> <<>>]

InitObservation ==
    /\ n_orch = 0
    /\ n_extract = 0
    /\ llm_calls = 0
    /\ raised = FALSE
    /\ last = [op |-> "init"]

\* the started_at of a session already as old as the duration limit
LongAgo == [kind |-> "aware", t |-> 1 - MAX_DURATION_SEC]

InitSession ==
    /\ session_id \in {NoSessionId,
                       [kind |-> "blank", name |-> "", t |-> 0],
                       [kind |-> "given", name |-> "sess-1", t |-> 0],
                       [kind |-> "padded", name |-> "sess-1", t |-> 0]}
    /\ started_at \in {NoTimestamp, [kind |-> "nonstr", t |-> 0],
                       [kind |-> "bad", t |-> 0], [kind |-> "naive", t |-> 0],
                       [kind |-> "aware", t |-> 0], LongAgo}
    /\ last_activity_at \in {NoTimestamp, [kind |-> "bad", t |-> 0],
                             [kind |-> "naive", t |-> 0],
                             [kind |-> "aware", t |-> 0]}
    /\ turn_count \in {None, Some(0)}
    /\ end_session \in BOOLEAN
    /\ messages \in {<<>>, <<UserMessage>>}
    /\ user_input = None
    /\ router = None
    /\ ephemeral_profile = None
    /\ ephemeral_collection = NoCollection
    /\ profile_id = None
    /\ user_action = "none"
    /\ retrieval = None
    /\ rag_snippets = None
    /\ now = 1
    /\ InitObservation

NextSession == \E d \in 0..MaxClockStep : Orchestrate(d)

SpecSession == InitSession /\ [][NextSession]_vars

----------------------------------------------------------------------------
(* Specification of several new sessions driven through the Controller *)

\* the Turn State of a session that has no id yet
FreshSession ==
    /\ session_id \in {NoSessionId, [kind |-> "blank", name |-> "", t |-> 0]}
    /\ started_at = NoTimestamp
    /\ last_activity_at = NoTimestamp
    /\ turn_count = None
    /\ end_session = FALSE
    /\ messages = <<>>

InitSessions ==
    /\ FreshSession
    /\ user_input = None
    /\ router = None
    /\ ephemeral_profile = None
    /\ ephemeral_collection = NoCollection
    /\ profile_id = None
    /\ user_action = "none"
    /\ retrieval = None
    /\ rag_snippets = None
    /\ now = 1
    /\ InitObservation

\* the next call of orchestrate is for another new session: its state
\* carries no id; prior_sid remembers the id the last session was given
NewSession ==
    /\ last.op = "orchestrate"
    /\ ~raised
    /\ n_orch < MaxInvocations
    /\ session_id' \in {NoSessionId, [kind |-> "blank", name |-> "", t |-> 0]}
    /\ started_at' = NoTimestamp
    /\ last_activity_at' = NoTimestamp
    /\ turn_count' = None
    /\ end_session' = FALSE
    /\ messages' = <<>>
    /\ last' = [op |-> "new_session", prior_sid |-> session_id]
    /\ UNCHANGED <<user_input, router, ephemeral_profile,
                   ephemeral_collection, profile_id, user_action, retrieval,
                   rag_snippets, now, n_orch, n_extract, llm_calls, raised>>

NextSessions ==
    \/ \E d \in 0..MaxClockStep : Orchestrate(d)
    \/ NewSession

SpecSessions == InitSessions /\ [][NextSessions]_vars

----------------------------------------------------------------------------
(* Specifications of a session driven through the Extractor *)

\* extract invocations per session
MaxExtractCalls == 2

NoProfile == [f \in FieldNames |-> None]

Mention(f, field) == [NoProfile EXCEPT ![f] = Some(field)]

JsonResponse(profile, triples) ==
    [kind |-> "json", data |-> [profile |-> profile, triples |-> triples]]

FailingResponses ==
    {[kind |-> "network_error"], [kind |-> "malformed_json"],
     JsonResponse(Mention("age", OverconfidentField), <<>>),
     JsonResponse(NoProfile, <<[T1 EXCEPT !.confidence = 150]>>)}

Routers ==
    {None,
     Some([category |-> "SMALL_TALK", save_profile |-> FALSE,
           save_collection |-> FALSE, use_rag |-> FALSE]),
     Some([category |-> "PROFILE_UPDATE", save_profile |-> TRUE,
           save_collection |-> FALSE, use_rag |-> FALSE]),
     Some([category |-> "COLLECTION_UPDATE", save_profile |-> FALSE,
           save_collection |-> TRUE, use_rag |-> FALSE]),
     Some([category |-> "POLICY_QA", save_profile |-> TRUE,
           save_collection |-> TRUE, use_rag |-> TRUE])}

ExtractInputs == {None, Some(<<" ">>), Some(<<"h", "i">>)}

\* prior shapes of the overlays
PriorProfiles == {None, Some([age |-> Age70])}

PriorCollections ==
    {[shape |-> "none", triples |-> <<>>],
     [shape |-> "emptydict", triples |-> <<>>],
     [shape |-> "dict", triples |-> <<>>],
     [shape |-> "dict", triples |-> <<T1>>],
     [shape |-> "list", triples |-> <<>>],
     [shape |-> "list", triples |-> <<T1>>],
     [shape |-> "malformed", triples |-> <<>>]}

InitExtractRest ==
    /\ session_id = [kind |-> "given", name |-> "sess-1", t |-> 0]
    /\ started_at = NoTimestamp
    /\ last_activity_at = NoTimestamp
    /\ turn_count = None
    /\ end_session = FALSE
    /\ messages = <<>>
    /\ user_input = None
    /\ router = None
    /\ profile_id = None
    /\ user_action = "none"
    /\ retrieval = None
    /\ rag_snippets = None
    /\ now = 1
    /\ InitObservation

InitExtract ==
    /\ ephemeral_profile \in PriorProfiles
    /\ ephemeral_collection \in PriorCollections
    /\ InitExtractRest

ShapeResponses ==
    FailingResponses \cup
    {JsonResponse(NoProfile, <<>>),
     JsonResponse(Mention("age", Age68), <<T1>>),
     JsonResponse(NoProfile, <<T1, T2>>),
     JsonResponse(Mention("age", BlankField), <<T2, T2>>)}

NextExtract ==
    /\ n_extract < MaxExtractCalls
    /\ \E input \in ExtractInputs, decision \in Routers,
          resp \in ShapeResponses :
          ExtractTurn(input, decision, resp)

SpecExtract == InitExtract /\ [][NextExtract]_vars

\* the profile overlay under every single-field extraction
FieldOptions == {Age68, Age70, NullField, BlankField}

ProfileResponses ==
    {JsonResponse(NoProfile, <<>>),
     JsonResponse([NoProfile EXCEPT !["age"] = Some(Age68),
                                    !["region_gu"] = Some(NullField)], <<>>),
     JsonResponse([NoProfile EXCEPT !["sex"] = Some(Age70),
                                    !["ltci_grade"] = Some(Age68)], <<T1>>)}
    \cup {JsonResponse(Mention(f, o), <<>>) :
            f \in FieldNames, o \in FieldOptions}

ProfileRouters ==
    {Some([category |-> "PROFILE_UPDATE", save_profile |-> TRUE,
           save_collection |-> FALSE]),
     Some([category |-> "PROFILE_UPDATE", save_profile |-> TRUE,
           save_collection |-> TRUE])}

InitProfile ==
    /\ ephemeral_profile \in
          {None, Some([age |-> Age70,
                       residency_sgg_code |-> [value |-> Some(<<"A">>),
                                               confidence |-> 90]])}
    /\ ephemeral_collection = EmptyTriplesDict
    /\ InitExtractRest

NextProfile ==
    /\ n_extract < MaxExtractCalls
    /\ \E decision \in ProfileRouters, resp \in ProfileResponses :
          ExtractTurn(Some(<<"h", "i">>), decision, resp)

SpecProfile == InitProfile /\ [][NextProfile]_vars

----------------------------------------------------------------------------
(* Properties of the Session Lifecycle Controller *)

OrchestrateReturned == last.op = "orchestrate" /\ ~raised

\* seconds between started_at and last_activity_at of the returned state
ElapsedSinceStart == last_activity_at.t - started_at.t

\* C1: in a fresh session whose returned state is threaded into the next
\* call, the turn_count returned by the Nth invocation of orchestrate is N,
\* one more than the turn_count it was called with, also on and after the
\* turn that ends the session.
C1_TurnCountEqualsInvocations ==
    OrchestrateReturned =>
        /\ turn_count = Some(n_orch)
        /\ Val(turn_count) = OrElse(last.turn_in, 0) + 1

\* C1 witness: an invocation after the one that ended the session
C1_Witness_CountsPastTheEnd ==
    /\ OrchestrateReturned
    /\ n_orch = MAX_TURNS + 1
    /\ last.turn_in = Some(MAX_TURNS)
    /\ end_session
    /\ turn_count = Some(MAX_TURNS + 1)

----------------------------------------------------------------------------
(* Properties of the Structured Context Extractor *)

\* the content of a profile overlay: an absent overlay has no field
ProfileContent(p) == OrElse(p, EmptyDict)

\* the triples a collection overlay holds, whatever its shape
TripleList(coll) == coll.triples

ExtractTook(path) == last.op = "extract" /\ last.path = path

OverlaysAsBefore ==
    /\ ProfileContent(ephemeral_profile) = ProfileContent(last.profile_in)
    /\ TripleList(ephemeral_collection) = TripleList(last.collection_in)

\* C3: with save_profile and save_collection both false, extract returns
\* both overlays with their input content, for every user_input and every
\* prior shape of the overlays, and does not call the extraction model.
C3_NoOpReturnsInput ==
    ExtractTook("skip") =>
        /\ ~raised
        /\ OverlaysAsBefore
        /\ llm_calls = last.llm_calls_in

\* C4: when the model call, its JSON parsing or its schema validation
\* fails, extract does not raise, returns both overlays with their prior
\* content and appends a trace entry holding the error, for every prior
\* shape of the overlays.
C4_FailureKeepsOverlays ==
    ExtractTook("error") =>
        /\ ~raised
        /\ OverlaysAsBefore
        /\ Len(messages) = Len(last.msgs_in) + 1
        /\ messages[Len(messages)].meta.error = last.result.error

\* a field the extraction returned a value for (neither null nor empty)
PresentValue(field) ==
    /\ field # None
    /\ Val(field).value \notin {None, Some(<<>>)}

\* C5: with save_profile true, a field for which the extraction returned a
\* value holds exactly the {value, confidence} of this extraction
\* afterwards, whatever was stored before; every other field is exactly as
\* it was (hence a field set in one turn survives later turns that do not
\* mention it).
C5_ProfileLastWriteWins ==
    (ExtractTook("ok") /\ last.save_profile) =>
        LET P == ProfileContent(last.profile_in)
            Q == ProfileContent(ephemeral_profile)
            E == last.result.profile
        IN \A f \in FieldNames \cup DOMAIN P \cup DOMAIN Q :
              IF f \in FieldNames /\ PresentValue(E[f])
              THEN /\ f \in DOMAIN Q
                   /\ Q[f] = [value |-> Val(E[f]).value,
                              confidence |-> Val(E[f]).confidence]
              ELSE /\ f \in DOMAIN Q <=> f \in DOMAIN P
                   /\ f \in DOMAIN P => Q[f] = P[f]

\* C5 witness: age was set to 68 (0.95) by an earlier turn, overwriting
\* the stored 70, and is intact after a turn that only mentions sex
C5_Witness_UnmentionedFieldKept ==
    /\ ExtractTook("ok") /\ last.save_profile
    /\ n_extract >= 2
    /\ "age" \in DOMAIN ProfileContent(last.profile_in)
    /\ ProfileContent(last.profile_in)["age"] = Age68
    /\ last.result.profile["age"] = None
    /\ PresentValue(last.result.profile["sex"])
    /\ ProfileContent(ephemeral_profile)["age"] = Age68
    /\ ProfileContent(ephemeral_profile)["sex"] = Age70

\* C6: merging the extraction result of the turn into the overlay it
\* produced gives that overlay again (merging twice equals merging once).
C6_ProfileMergeIdempotent ==
    (ExtractTook("ok") /\ last.save_profile) =>
        _merge_ephemeral_profile(ProfileContent(ephemeral_profile),
                                 last.result.profile, TRUE)
            = ProfileContent(ephemeral_profile)

\* C6 witness: the extraction overwrote a stored field with a different
\* value and confidence
C6_Witness_OverwritingMerge ==
    /\ ExtractTook("ok") /\ last.save_profile
    /\ "age" \in DOMAIN ProfileContent(last.profile_in)
    /\ ProfileContent(last.profile_in)["age"] = Age70
    /\ last.result.profile["age"] = Some(Age68)
    /\ ProfileContent(ephemeral_profile)["age"] = Age68

\* C7: with save_collection true and a successful extraction of k
\* triples, the returned triple list is the prior list followed by the k
\* extracted triples in order; nothing is deduplicated.
C7_CollectionAppends ==
    (ExtractTook("ok") /\ last.save_collection) =>
        /\ ephemeral_collection.shape = "dict"
        /\ TripleList(ephemeral_collection)
              = TripleList(last.collection_in) \o last.result.triples
        /\ Len(TripleList(ephemeral_collection))
              = Len(TripleList(last.collection_in)) + Len(last.result.triples)

\* C7 witness: a triple equal to a stored one was appended again
C7_Witness_DuplicateAppended ==
    /\ ExtractTook("ok") /\ last.save_collection
    /\ TripleList(last.collection_in) = <<T1>>
    /\ last.result.triples = <<T1>>
    /\ TripleList(ephemeral_collection) = <<T1, T1>>

\* C23: when exactly one save flag is true and the extraction succeeds,
\* the overlay whose flag is false comes back with its prior content,
\* whatever the model returned for it: the profile equals the prior
\* profile, and the collection is the {triples: [...]} mapping holding
\* the prior triples, for an absent, mapping, bare-list or malformed
\* prior value.
C23_UnflaggedOverlayKept ==
    (ExtractTook("ok") /\ last.save_profile # last.save_collection) =>
        /\ ~raised
        /\ ~last.save_profile =>
              ProfileContent(ephemeral_profile)
                  = ProfileContent(last.profile_in)
        /\ ~last.save_collection =>
              /\ ephemeral_collection.shape = "dict"
              /\ TripleList(ephemeral_collection)
                    = TripleList(last.collection_in)

\* C23 witness: the model returns a triple while only the profile may be
\* saved, and the prior collection is a bare list
C23_Witness_TripleNotSaved ==
    /\ ExtractTook("ok")
    /\ last.save_profile /\ ~last.save_collection
    /\ last.result.triples = <<T1>>
    /\ last.collection_in = [shape |-> "list", triples |-> <<T1>>]
    /\ ephemeral_collection = [shape |-> "dict", triples |-> <<T1>>]

\* C24: with an empty or blank user_input and at least one save flag
\* true, extract does not call the extraction model, returns both
\* overlays with their prior content and appends one trace entry.
C24_EmptyInputPassesThrough ==
    ExtractTook("empty") =>
        /\ ~raised
        /\ llm_calls = last.llm_calls_in
        /\ OverlaysAsBefore
        /\ Len(messages) = Len(last.msgs_in) + 1
        /\ SubSeq(messages, 1, Len(last.msgs_in)) = last.msgs_in

----------------------------------------------------------------------------
(* Specification of a turn handed to the Retrieval Planner *)

\* pieces a user input is concatenated from
MaxPieces == 2

\* eligibility (a trigger word), save (a save-intent word), possible (a
\* stopword), two spellings of one Latin word, and separators
TextPieces ==
    {<<"ja", "gyeok">>, <<"jeo", "jang">>, <<"ga", "neung">>,
     <<"h", "i">>, <<"H", "I">>, <<" ">>}

RECURSIVE TextsOfPieces(_)
TextsOfPieces(n) ==
    IF n = 0 THEN {<<>>}
    ELSE LET shorter == TextsOfPieces(n - 1)
         IN shorter \cup {t \o p : t \in shorter, p \in TextPieces}

PlanInputs == {None} \cup {Some(t) : t \in TextsOfPieces(MaxPieces)}

PlanRouters ==
    {None,
     Some(EmptyDict),
     Some([category |-> "POLICY_QA", save_profile |-> FALSE,
           save_collection |-> FALSE]),
     Some([category |-> "POLICY_QA", save_profile |-> FALSE,
           save_collection |-> FALSE, use_rag |-> TRUE]),
     Some([category |-> "SMALL_TALK", save_profile |-> FALSE,
           save_collection |-> FALSE, use_rag |-> FALSE])}

PlanProfiles ==
    {None,
     Some([residency_sgg_code |-> [value |-> Some(<<" ", "gang", "nam", " ">>),
                                   confidence |-> 95],
           age |-> Age68]),
     Some([residency_sgg_code |-> [value |-> Some(<<" ">>), confidence |-> 40],
           region_gu |-> [value |-> Some(<<"gu">>), confidence |-> 90]])}

PlanCollections == {NoCollection, [shape |-> "dict", triples |-> <<T1>>]}

InitPlan ==
    /\ session_id = [kind |-> "given", name |-> "sess-1", t |-> 0]
    /\ started_at = _now_iso(0)
    /\ last_activity_at = _now_iso(1)
    /\ turn_count = Some(1)
    /\ end_session \in BOOLEAN
    /\ messages = <<>>
    /\ user_input \in PlanInputs
    /\ router \in PlanRouters
    /\ ephemeral_profile \in PlanProfiles
    /\ ephemeral_collection \in PlanCollections
    /\ profile_id \in {None, Some(1)}
    /\ user_action = "none"
    /\ retrieval = None
    /\ rag_snippets = None
    /\ now = 1
    /\ InitObservation

\* the Planner runs once on the state of the turn
NextPlan == retrieval = None /\ Plan

SpecPlan == InitPlan /\ [][NextPlan]_vars

----------------------------------------------------------------------------
(* Specification of a retrieval turn over the shapes of the residency
   field *)

PaddedGangnam == <<" ", "gang", "nam", " ">>

\* ephemeral profiles: none, no residency field, a wrapped padded value,
\* a wrapped null, a wrapped empty string, a wrapped blank string, a key
\* holding None beside an alias, a bare padded string, an alias alone, a
\* wrapped blank string beside an alias
RegionProfiles ==
    {None,
     Some([age |-> Age68]),
     Some([residency_sgg_code |-> [value |-> Some(PaddedGangnam),
                                   confidence |-> 95]]),
     Some([residency_sgg_code |-> [value |-> None, confidence |-> 20],
           region_gu |-> [scalar |-> <<"gu">>]]),
     Some([residency_sgg_code |-> [value |-> Some(<<>>), confidence |-> 20]]),
     Some([residency_sgg_code |-> [value |-> Some(<<" ", " ">>),
                                   confidence |-> 20]]),
     Some([residency_sgg_code |-> [null |-> TRUE],
           region_gu |-> [value |-> Some(<<"gu", " ">>), confidence |-> 80]]),
     Some([residency_sgg_code |-> [scalar |-> <<" ", "gu">>]]),
     Some([region_gu |-> [scalar |-> PaddedGangnam]]),
     Some([residency_sgg_code |-> [value |-> Some(<<" ">>), confidence |-> 20],
           region_gu |-> [value |-> Some(<<" ", "gu">>), confidence |-> 80]])}

InitRegion ==
    /\ session_id = [kind |-> "given", name |-> "sess-1", t |-> 0]
    /\ started_at = _now_iso(0)
    /\ last_activity_at = _now_iso(1)
    /\ turn_count = Some(1)
    /\ end_session = FALSE
    /\ messages = <<>>
    /\ user_input \in {Some(<<"ja", "gyeok">>), Some(<<"h", "i">>)}
    /\ router \in {None, Some([category |-> "POLICY_QA",
                                save_profile |-> FALSE,
                                save_collection |-> FALSE,
                                use_rag |-> TRUE])}
    /\ ephemeral_profile \in RegionProfiles
    /\ ephemeral_collection = NoCollection
    /\ profile_id \in {None, Some(1)}
    /\ user_action = "none"
    /\ retrieval = None
    /\ rag_snippets = None
    /\ now = 1
    /\ InitObservation

NextRegion == retrieval = None /\ Plan

SpecRegion == InitRegion /\ [][NextRegion]_vars

----------------------------------------------------------------------------
(* Specification of extract_keywords over bounded texts *)

\* pieces a text is concatenated from
MaxKeywordPieces == 4

\* two spellings of one Latin word, a one-letter word, a stopword
\* (possible), a Hangul word (eligibility) and two separators
KeywordPieces ==
    {<<"h", "i">>, <<"H", "I">>, <<"h">>, <<"ga", "neung">>,
     <<"ja", "gyeok">>, <<" ">>, <<"?">>}

RECURSIVE KeywordTexts(_)
KeywordTexts(n) ==
    IF n = 0 THEN {<<>>}
    ELSE LET shorter == KeywordTexts(n - 1)
         IN shorter \cup {t \o p : t \in shorter, p \in KeywordPieces}

\* words joined by single blanks
RECURSIVE Sentence(_)
Sentence(words) ==
    IF words = <<>> THEN <<>>
    ELSE IF Len(words) = 1 THEN words[1]
    ELSE words[1] \o <<" ">> \o Sentence(Tail(words))

\* texts with more words than the default cap: nine distinct keywords;
\* ten words of which eight are distinct keywords; eight distinct
\* keywords with repeats, a stopword and a short word in between
LongTexts ==
    {Sentence(<< <<"h", "0">>, <<"h", "1">>, <<"h", "2">>, <<"h", "6">>,
                 <<"h", "8">>, <<"i", "0">>, <<"i", "1">>, <<"i", "2">>,
                 <<"i", "6">> >>),
     Sentence(<< <<"h", "0">>, <<"H", "0">>, <<"h", "1">>, <<"h", "2">>,
                 <<"h", "6">>, <<"h", "8">>, <<"i", "0">>, <<"i", "1">>,
                 <<"I", "1">>, <<"i", "2">> >>),
     Sentence(<< <<"h", "0">>, <<"a">>, <<"h", "1">>, <<"ga", "neung">>,
                 <<"h", "2">>, <<"h", "6">>, <<"H", "0">>, <<"h", "8">>,
                 <<"i", "0">>, <<"i", "1">>, <<"i", "2">> >>)}

\* the max_k a caller passes
KeywordCaps == {0, 1, 2, DefaultMaxKeywords}

InitKeywords ==
    /\ session_id = [kind |-> "given", name |-> "sess-1", t |-> 0]
    /\ started_at = _now_iso(0)
    /\ last_activity_at = _now_iso(1)
    /\ turn_count = Some(1)
    /\ end_session = FALSE
    /\ messages = <<>>
    /\ user_input \in {Some(t) : t \in KeywordTexts(MaxKeywordPieces)
                                        \cup LongTexts}
    /\ router = None
    /\ ephemeral_profile = None
    /\ ephemeral_collection = NoCollection
    /\ profile_id = None
    /\ user_action = "none"
    /\ retrieval = None
    /\ rag_snippets = None
    /\ now = 1
    /\ n_orch = 0
    /\ n_extract = 0
    /\ llm_calls = 0
    /\ raised = FALSE
    /\ \E k \in KeywordCaps : last = [op |-> "input", max_k |-> k]

\* a call extract_keywords(text, max_k) on the text of the turn
CallExtractKeywords ==
    /\ last.op = "input"
    /\ last' = [op |-> "extract_keywords",
                text |-> Val(user_input), max_k |-> last.max_k,
                result |-> extract_keywords(Val(user_input), last.max_k)]
    /\ raised' = FALSE
    /\ UNCHANGED <<turnStateVars, now, n_orch, n_extract, llm_calls>>

NextKeywords == CallExtractKeywords

SpecKeywords == InitKeywords /\ [][NextKeywords]_vars

----------------------------------------------------------------------------
(* Specification of one turn carried through the three stages: the state
   the API hands to the graph goes through the Controller, then the
   Extractor, then the Planner; a stage that raises ends the turn *)

TurnInputs == {Some(<<" ">>), Some(<<"h", "i">>), Some(<<"jeo", "jang">>)}

TurnRouters ==
    {None,
     Some([category |-> "PROFILE_UPDATE", save_profile |-> TRUE,
           save_collection |-> FALSE, use_rag |-> FALSE]),
     Some([category |-> "POLICY_QA", save_profile |-> TRUE,
           save_collection |-> TRUE, use_rag |-> TRUE])}

TurnResponses ==
    {[kind |-> "network_error"],
     JsonResponse(Mention("age", Age68), <<T1>>)}

\* what the checkpoint of the thread holds: nothing (first turn), or the
\* bookkeeping and overlay of earlier turns
TurnCollections ==
    {NoCollection, [shape |-> "dict", triples |-> <<T1>>],
     [shape |-> "list", triples |-> <<T1>>]}

\* the clock at the start of the turn: a thread started at 0 reaches the
\* duration limit if the Controller runs a second later
FirstClock == MAX_DURATION_SEC - 1

\* ChatRequest.user_action
UserActions == {"none", "save", "reset_save", "reset_drop"}

\* req.user_action in ("reset_save", "reset_drop")
EndingActions == {"reset_save", "reset_drop"}

\* init_state of chat(): session_id, user_input and end_session (true for
\* the reset_save / reset_drop user actions), over the thread's checkpoint
InitTurn ==
    /\ session_id = [kind |-> "given", name |-> "sess-1", t |-> 0]
    /\ \E th \in {[started_at |-> NoTimestamp, turn_count |-> None],
                  [started_at |-> _now_iso(0), turn_count |-> Some(1)],
                  [started_at |-> _now_iso(0), turn_count |-> Some(2)]} :
          /\ started_at = th.started_at
          /\ turn_count = th.turn_count
          /\ last_activity_at = th.started_at
    /\ user_action \in UserActions
    /\ end_session = (user_action \in EndingActions)
    /\ messages = <<>>
    /\ user_input \in TurnInputs
    /\ router \in TurnRouters
    /\ ephemeral_profile = None
    /\ ephemeral_collection \in TurnCollections
    /\ profile_id = None
    /\ retrieval = None
    /\ rag_snippets = None
    /\ now = FirstClock
    /\ InitObservation

ControllerStage == last.op = "init" /\ \E d \in 0..MaxClockStep : Orchestrate(d)

ExtractorStage ==
    /\ last.op = "orchestrate" /\ ~raised
    /\ \E resp \in TurnResponses : ExtractTurn(user_input, router, resp)

PlannerStage == last.op = "extract" /\ ~raised /\ Plan

NextTurn == ControllerStage \/ ExtractorStage \/ PlannerStage

SpecTurn == InitTurn /\ [][NextTurn]_vars

----------------------------------------------------------------------------
(* Properties of the Retrieval Planner *)

Planned == last.op = "plan" /\ retrieval # None

QueryText == OrElse(user_input, <<>>)

HasTriggerWord(text) == \E w \in TriggerWords : Contains(text, w)

HasSaveWord(text) == \E w \in SaveWords : Contains(text, w)

RouterCarriesUseRag == router # None /\ "use_rag" \in DOMAIN Val(router)

\* C8: when the router decision carries an explicit use_rag boolean, the
\* retrieval decision and retrieval.used_rag equal it, whatever the user
\* input contains: nothing is embedded or searched when it is false.
C8_ExplicitUseRagHonored ==
    (Planned /\ RouterCarriesUseRag) =>
        /\ Val(retrieval).used_rag = Val(router).use_rag
        /\ ~Val(router).use_rag =>
              ~last.embed_called /\ last.search.kind = "skipped"
        /\ (Val(router).use_rag /\ Strip(QueryText) # <<>>) =>
              last.embed_called

\* C8 witness: use_rag false is honored for an input with a trigger word
C8_Witness_FlagBeatsTriggerWord ==
    /\ Planned /\ RouterCarriesUseRag
    /\ ~Val(router).use_rag
    /\ HasTriggerWord(QueryText)
    /\ ~Val(retrieval).used_rag

\* C9 as stated: whenever the router decision carries no use_rag flag,
\* also when it is missing or empty, retrieval is enabled exactly when the
\* user input contains a trigger word.
C9_Original_FallbackAlwaysHeuristic ==
    (Planned /\ ~RouterCarriesUseRag) =>
        (Val(retrieval).used_rag <=> HasTriggerWord(QueryText))

\* C9 amended: when the router decision is present and non-empty but
\* carries no use_rag flag, retrieval is enabled exactly when the user
\* input contains a trigger word; when the router decision is missing or
\* empty, retrieval is enabled whatever the input contains.
C9_FallbackHeuristic ==
    (Planned /\ ~RouterCarriesUseRag) =>
        IF router = None \/ Val(router) = EmptyDict
        THEN Val(retrieval).used_rag
        ELSE Val(retrieval).used_rag <=> HasTriggerWord(QueryText)

\* C9 witness: a router decision without the flag and an input with a
\* trigger word inside a longer token
C9_Witness_TriggerEnablesRetrieval ==
    /\ Planned
    /\ router # None /\ Val(router) # EmptyDict /\ ~RouterCarriesUseRag
    /\ QueryText = <<"h", "i", "ja", "gyeok">>
    /\ Val(retrieval).used_rag
    /\ last.embed_called

\* C10: when retrieval is enabled and the embedding call raises, plan does
\* not raise, no vector search is executed, rag_snippets holds no retrieved
\* document (it is empty unless the session ends or the input has a
\* save-intent word) and keywords is the keyword list of the query,
\* non-empty when the query contains a trigger word.
C10_EmbeddingFailureDegrades ==
    (Planned /\ last.embed_failed) =>
        LET snippets == Val(retrieval).rag_snippets
        IN /\ ~raised
           /\ Val(retrieval).used_rag
           /\ last.search.kind = "skipped"
           /\ \A i \in 1..Len(snippets) :
                 snippets[i].doc_id = PersistNotice.doc_id
           /\ (~end_session /\ ~HasSaveWord(QueryText)) => snippets = <<>>
           /\ Val(retrieval).keywords
                 = extract_keywords(QueryText, DefaultMaxKeywords)
           /\ HasTriggerWord(QueryText) => Val(retrieval).keywords # <<>>

\* C10 witness: the embedding fails for a query with a trigger word
C10_Witness_KeywordsSurvive ==
    /\ Planned /\ last.embed_failed
    /\ ~end_session
    /\ QueryText = <<"ja", "gyeok", " ">>
    /\ Val(retrieval).rag_snippets = <<>>
    /\ Val(retrieval).keywords = << <<"ja", "gyeok">> >>

RetrievalKeys ==
    {"used_rag", "profile_ctx", "collection_ctx", "rag_snippets", "keywords"}

\* the documents of a snippet list that came from the store
RetrievedDocs(snippets) ==
    SelectSeq(snippets, LAMBDA s : s.doc_id # PersistNotice.doc_id)

\* C11: plan never raises when the persisted-profile fetch, the
\* persisted-collection fetch or the vector search fails, in any
\* combination: it writes a retrieval object with the five keys, merged
\* with an absent persisted side for a failed fetch and holding no
\* retrieved document for a failed search.
C11_PlanSurvivesFailures ==
    (last.op = "plan") =>
        /\ ~raised
        /\ retrieval # None
        /\ DOMAIN Val(retrieval) = RetrievalKeys
        /\ rag_snippets = Some(Val(retrieval).rag_snippets)
        /\ last.fetch_profile.kind = "raise" =>
              Val(retrieval).profile_ctx
                  = merge_profile(None, ephemeral_profile)
        /\ last.fetch_collection.kind = "raise" =>
              Val(retrieval).collection_ctx
                  = merge_collection(None, ephemeral_collection)
        /\ last.search.kind = "raise" =>
              RetrievedDocs(Val(retrieval).rag_snippets) = <<>>

\* C11 witness: both fetches and the search fail in one call
C11_Witness_AllThreeFail ==
    /\ last.op = "plan"
    /\ last.fetch_profile.kind = "raise"
    /\ last.fetch_collection.kind = "raise"
    /\ last.search.kind = "raise"
    /\ ~raised
    /\ Val(retrieval).used_rag
    /\ Val(retrieval).rag_snippets = <<>>
    /\ Val(retrieval).keywords # <<>>

\* the residency entry of a merged profile: the primary field, or the
\* alias when the primary field is missing or holds None
ResidencyEntry(profile) ==
    IF ProfileGet(profile, "residency_sgg_code") # None
    THEN ProfileGet(profile, "residency_sgg_code")
    ELSE ProfileGet(profile, "region_gu")

\* the text the residency entry carries, if any
ResidencyText(merged_profile) ==
    IF merged_profile = None THEN None
    ELSE LET entry == ResidencyEntry(Val(merged_profile))
         IN IF entry = None THEN None
            ELSE IF "value" \in DOMAIN Val(entry) THEN Val(entry).value
            ELSE Some(Val(entry).scalar)

Padded(text) ==
    text # <<>> /\ (IsSpace(text[1]) \/ IsSpace(text[Len(text)]))

\* the candidate rows whose trimmed region equals the region
RECURSIVE RowsOfRegion(_, _)
RowsOfRegion(candidates, region) ==
    IF candidates = <<>> THEN <<>>
    ELSE (IF Head(candidates).region # None
             /\ Strip(Val(Head(candidates).region)) = region
          THEN <<Head(candidates)>> ELSE <<>>)
         \o RowsOfRegion(Tail(candidates), region)

\* C12: the region filter a search derives is the residency value,
\* unwrapped and with surrounding whitespace removed; for a missing,
\* null, empty or blank value it is absent and the search returns rows
\* of every region without failing; a filter that is present is neither
\* empty nor padded, and the rows returned are those of that region.
C12_RegionFilterSanitized ==
    (Planned /\ last.embed_called) =>
        LET text == ResidencyText(Val(retrieval).profile_ctx)
            filter == last.region_filter
        IN /\ ~raised
           /\ IF text = None \/ Strip(Val(text)) = <<>>
              THEN filter = None
              ELSE filter = Some(Strip(Val(text)))
           /\ filter # None => Val(filter) # <<>> /\ ~Padded(Val(filter))
           /\ last.search.kind = "rows" =>
                 last.rows = IF filter = None
                             THEN Limit(last.search.candidates, DefaultTopK)
                             ELSE Limit(RowsOfRegion(last.search.candidates,
                                                     Val(filter)),
                                        DefaultTopK)

\* C12 witness: a blank residency value, and a search that returns rows
\* of several regions
C12_Witness_BlankRegionUnfiltered ==
    /\ Planned /\ last.embed_called
    /\ ResidencyText(Val(retrieval).profile_ctx) = Some(<<" ", " ">>)
    /\ last.region_filter = None
    /\ last.search.kind = "rows"
    /\ Len(last.rows) = 5
    /\ Len(RetrievedDocs(Val(retrieval).rag_snippets)) = 5

SearchReturned == Planned /\ last.search.kind = "rows"

\* C13: the snippets of a search hold one entry per returned row, ordered
\* by similarity descending with every entry that lacks a similarity
\* behind all entries that have one, whatever the order of the rows;
\* rows returned with similarities 0.9, 0.7, 0.5 keep their order, and
\* the sort does not raise when similarities are missing.
C13_SnippetsBySimilarity ==
    SearchReturned =>
        LET docs == RetrievedDocs(Val(retrieval).rag_snippets)
            rows == last.rows
        IN /\ ~raised
           /\ Len(docs) = Len(rows)
           /\ \A i \in 1..Len(rows) :
                 \E j \in 1..Len(docs) :
                    /\ docs[j].doc_id = rows[i].id
                    /\ docs[j].score = rows[i].similarity
           /\ \A i, j \in 1..Len(docs) :
                 i < j =>
                    /\ docs[i].score = None => docs[j].score = None
                    /\ (docs[i].score # None /\ docs[j].score # None) =>
                          Val(docs[i].score) >= Val(docs[j].score)
           /\ [i \in 1..Len(rows) |-> rows[i].similarity]
                    = <<Some(90), Some(70), Some(50)>> =>
                 [i \in 1..Len(docs) |-> docs[i].doc_id]
                    = [i \in 1..Len(rows) |-> rows[i].id]

\* C13 witness: five rows arrive unordered, two of them without a
\* similarity
C13_Witness_MissingScoresLast ==
    /\ SearchReturned
    /\ [i \in 1..Len(last.rows) |-> last.rows[i].similarity]
          = <<None, Some(50), None, Some(90), Some(50)>>
    /\ LET docs == RetrievedDocs(Val(retrieval).rag_snippets)
       IN /\ [i \in 1..Len(docs) |-> docs[i].score]
                = <<Some(90), Some(50), Some(50), None, None>>
          /\ [i \in 1..Len(docs) |-> docs[i].doc_id]
                = <<"7", "5", "8", "4", "6">>

\* the positions of a snippet list that hold the persistence notice
NoticePositions(snippets) ==
    {i \in 1..Len(snippets) : snippets[i].doc_id = PersistNotice.doc_id}

\* C14: after plan, rag_snippets holds the entry with doc_id
\* system:conversation_persist exactly once and as its last element when
\* end_session is true or the user input contains a save-intent word,
\* with retrieval enabled, disabled or failed; otherwise it holds no such
\* entry.
C14_PersistNoticeOnceAndLast ==
    Planned =>
        LET snippets == Val(retrieval).rag_snippets
        IN IF end_session \/ HasSaveWord(QueryText)
           THEN /\ NoticePositions(snippets) = {Len(snippets)}
                /\ snippets # <<>>
                /\ snippets[Len(snippets)] = PersistNotice
           ELSE NoticePositions(snippets) = {}

\* C14 witness: a save-intent word on a turn that does not end, with
\* three documents retrieved before the notice
C14_Witness_NoticeAfterDocuments ==
    /\ Planned
    /\ ~end_session
    /\ HasSaveWord(QueryText)
    /\ last.search.kind = "rows"
    /\ Len(Val(retrieval).rag_snippets) = 4
    /\ NoticePositions(Val(retrieval).rag_snippets) = {4}

\* the retrieval decision of the turn
RetrievalDecision == _decide_use_rag(OrElse(router, EmptyDict), QueryText)

\* C15: when the retrieval decision is false, plan computes no embedding
\* and runs no vector search, retrieval.used_rag is false, rag_snippets
\* holds no retrieved document (it is empty on a turn that neither ends
\* nor has a save-intent word), and the keywords are those of the input.
C15_DisabledRetrievalSkipsSearch ==
    (Planned /\ ~RetrievalDecision) =>
        /\ ~last.embed_called
        /\ ~last.embed_failed
        /\ last.search.kind = "skipped"
        /\ ~Val(retrieval).used_rag
        /\ RetrievedDocs(Val(retrieval).rag_snippets) = <<>>
        /\ (~end_session /\ ~HasSaveWord(QueryText)) =>
              Val(retrieval).rag_snippets = <<>>
        /\ Val(retrieval).keywords
              = extract_keywords(QueryText, DefaultMaxKeywords)

\* C15 witness: the input hi on a turn that does not end, with a router
\* decision that carries no flag
C15_Witness_SmallTalk ==
    /\ Planned
    /\ ~RetrievalDecision
    /\ ~RouterCarriesUseRag
    /\ ~end_session
    /\ QueryText = <<"h", "i">>
    /\ ~Val(retrieval).used_rag
    /\ Val(retrieval).rag_snippets = <<>>
    /\ Val(retrieval).keywords = << <<"h", "i">> >>

----------------------------------------------------------------------------
(* Further properties of the Session Lifecycle Controller *)

\* C16: orchestrate never raises: a started_at or last_activity_at that
\* is absent, not a string, unparseable or without a timezone offset is
\* treated as absent and set to the current time, and the call returns
\* session_id, started_at, last_activity_at, turn_count and end_session.
C16_OrchestrateNeverRaises ==
    (last.op = "orchestrate") =>
        /\ ~raised
        /\ last.started_in.kind \in {"none", "nonstr", "bad", "naive"} =>
              started_at = _now_iso(now)
        /\ last_activity_at = _now_iso(now)
        /\ session_id.kind \in {"given", "gen"}
        /\ turn_count # None
        /\ end_session \in BOOLEAN

\* seconds between the last_activity_at a call was given and the call
IdleGap == now - last.last_activity_in.t

\* the termination reasons recorded in the trace
RecordedReasons ==
    UNION {{messages[i].meta.reasons[k] :
                k \in 1..Len(messages[i].meta.reasons)} :
           i \in {j \in 1..Len(messages) :
                     messages[j].content
                        = "[session_orchestrator] end_session=True"}}

----------------------------------------------------------------------------
(* Further properties of the Retrieval Planner *)

\* the persisted profile and collection plan merged: absent when the
\* fetch was not issued, failed or returned nothing
PersistedProfile ==
    IF last.fetch_profile.kind = "value"
    THEN OrElse(last.fetch_profile.value, EmptyDict) ELSE EmptyDict

PersistedTriples ==
    IF last.fetch_collection.kind = "value"
    THEN OrElse(last.fetch_collection.value, <<>>) ELSE <<>>

EphemeralProfile == OrElse(ephemeral_profile, EmptyDict)

C19_KeywordsOnEveryPath ==
    Planned =>
        Val(retrieval).keywords
            = extract_keywords(QueryText, DefaultMaxKeywords)

\* C19 witness: the search fails for an input that starts with a blank
C19_Witness_KeywordsAfterFailedSearch ==
    /\ Planned
    /\ last.search.kind = "raise"
    /\ QueryText = <<" ", "ja", "gyeok">>
    /\ Val(retrieval).keywords = << <<"ja", "gyeok">> >>

----------------------------------------------------------------------------
(* Properties of extract_keywords *)

KeywordsReturned == last.op = "extract_keywords"

\* positions i..j of text hold a maximal run of token characters
IsRun(text, i, j) ==
    /\ \A k \in i..j : IsTokenChar(text[k])
    /\ i = 1 \/ ~IsTokenChar(text[i - 1])
    /\ j = Len(text) \/ ~IsTokenChar(text[j + 1])

\* the alphanumeric tokens of text that start at position i or later
RECURSIVE TokensFrom(_, _)
TokensFrom(text, i) ==
    IF i > Len(text) THEN <<>>
    ELSE LET ends == {j \in i..Len(text) : IsRun(text, i, j)}
         IN (IF ends = {} THEN <<>>
             ELSE <<SubSeq(text, i, CHOOSE j \in ends : TRUE)>>)
            \o TokensFrom(text, i + 1)

\* upper-case letters and their lower-case forms
CasePairs == {<<"A", "a">>, <<"H", "h">>, <<"I", "i">>}

Folded(token) ==
    [i \in 1..Len(token) |->
        IF \E p \in CasePairs : p[1] = token[i]
        THEN (CHOOSE p \in CasePairs : p[1] = token[i])[2]
        ELSE token[i]]

\* a sequence without its repeated elements, first occurrences kept
RECURSIVE FirstOccurrences(_)
FirstOccurrences(seq) ==
    IF seq = <<>> THEN <<>>
    ELSE LET front == FirstOccurrences(SubSeq(seq, 1, Len(seq) - 1))
         IN IF InSeq(seq[Len(seq)], front) THEN front
            ELSE Append(front, seq[Len(seq)])

\* the lowercased tokens of length >= 2 that are no stopwords, each once,
\* in order of first occurrence
DistinctKeywords(text) ==
    LET tokens == TokensFrom(text, 1)
        folded == [i \in 1..Len(tokens) |-> Folded(tokens[i])]
    IN FirstOccurrences(SelectSeq(folded,
           LAMBDA t : Len(t) >= 2 /\ t \notin StopWords))

FirstN(seq, n) == SubSeq(seq, 1, IF Len(seq) < n THEN Len(seq) ELSE n)

\* C20 as stated: for every text, extract_keywords (with its default
\* max_k) returns exactly the lowercased alphanumeric tokens of length
\* >= 2 that are no stopwords, each once, in order of first occurrence.
C20_Original_AllKeywordsReturned ==
    (KeywordsReturned /\ last.max_k = DefaultMaxKeywords) =>
        last.result = DistinctKeywords(last.text)

\* C20 amended: for every text and every max_k >= 1, extract_keywords
\* returns the first max_k (all, when there are fewer) of the lowercased
\* alphanumeric tokens of length >= 2 that are no stopwords, each once,
\* in order of first occurrence.
C20_FirstKeywordsReturned ==
    (KeywordsReturned /\ last.max_k >= 1) =>
        last.result = FirstN(DistinctKeywords(last.text), last.max_k)

\* C20 witness: a text with nine distinct keywords under the default cap
C20_Witness_NinthKeywordDropped ==
    /\ KeywordsReturned
    /\ last.max_k = DefaultMaxKeywords
    /\ Len(DistinctKeywords(last.text)) = 9
    /\ Len(last.result) = 8
    /\ last.result[8] = <<"i", "2">>

\* C21: extract_keywords returns at most max_k keywords for every text
\* and every max_k >= 0, at most 8 with the default, and the first max_k
\* distinct qualifying tokens when there are more than max_k of them.
C21_KeywordsCapped ==
    KeywordsReturned =>
        /\ Len(last.result) <= last.max_k
        /\ Len(DistinctKeywords(last.text)) > last.max_k =>
              last.result = FirstN(DistinctKeywords(last.text), last.max_k)

----------------------------------------------------------------------------
(* Properties of the snippets of a search *)

\* a column of a row holds text that is not blank
HasText(column) == column # None /\ Strip(Val(column)) # <<>>

\* the snippet text the claim describes for a row
SectionsOf(row) ==
    LET req == RequirementsLabel \o Strip(OrElse(row.requirements, <<>>))
        ben == BenefitsLabel \o Strip(OrElse(row.benefits, <<>>))
    IN CASE HasText(row.requirements) /\ HasText(row.benefits) ->
                req \o <<"\n", "\n">> \o ben
         [] HasText(row.requirements) /\ ~HasText(row.benefits) -> req
         [] ~HasText(row.requirements) /\ HasText(row.benefits) -> ben
         [] OTHER -> <<>>

FallbackSource == <<"p", "o", "l", "i", "c", "y", "_", "d", "b">>

\* C22: the snippet text of a matched document holds its present
\* sections only, the requirements section under its label before the
\* benefits section under its label; one section alone yields that
\* labelled section, no section the empty string; the source is the
\* document's region when it has one and the fallback label otherwise.
C22_SnippetSections ==
    SearchReturned =>
        LET docs == RetrievedDocs(Val(retrieval).rag_snippets)
        IN \A i \in 1..Len(last.rows) :
              \E j \in 1..Len(docs) :
                 /\ docs[j].doc_id = last.rows[i].id
                 /\ docs[j].snippet = SectionsOf(last.rows[i])
                 /\ docs[j].source
                       = IF HasText(last.rows[i].region)
                         THEN Strip(Val(last.rows[i].region))
                         ELSE FallbackSource

\* C22 witness: documents with both sections, with one section and with
\* none, with and without a region
C22_Witness_SectionsAndSources ==
    /\ SearchReturned
    /\ \E i, j, k \in 1..Len(last.rows) :
          /\ HasText(last.rows[i].requirements)
          /\ HasText(last.rows[i].benefits)
          /\ HasText(last.rows[j].requirements)
          /\ ~HasText(last.rows[j].benefits)
          /\ ~HasText(last.rows[k].requirements)
          /\ HasText(last.rows[k].benefits)
    /\ LET docs == RetrievedDocs(Val(retrieval).rag_snippets)
       IN /\ Len(docs) = 3
          /\ docs[1].snippet
                = RequirementsLabel \o <<"r", "\n", "\n">>
                     \o BenefitsLabel \o <<"b">>
          /\ docs[2].snippet = BenefitsLabel \o <<"b">>
          /\ docs[3].snippet = RequirementsLabel \o <<"r">>

----------------------------------------------------------------------------
(* Properties of the session identity *)

\* C25: a call of orchestrate with an absent or blank session_id returns
\* a synthesized, non-empty session_id and logs the synthesis, and the id
\* differs from the id synthesized for the previous new session, also
\* when both calls read the same clock value.
C25_SynthesizedIdsDiffer ==
    [][(last'.op = "orchestrate" /\ ~raised'
        /\ last'.sid_in.kind \in {"none", "blank"}) =>
          /\ session_id'.kind = "gen"
          /\ \E i \in 1..Len(messages') :
                /\ messages'[i].content
                      = "[session_orchestrator] session_id generated"
                /\ messages'[i].meta.sid = session_id'
          /\ last.op = "new_session" => session_id' # last.prior_sid]_vars

\* C26 as stated: over the invocations of orchestrate on a threaded
\* session, a non-blank session_id is returned unchanged, started_at is
\* set to the current time by the first invocation and returned unchanged
\* by every later one, and last_activity_at is set to the current time by
\* every invocation, so that last_activity_at >= started_at.
C26_Original_IdentityStable ==
    OrchestrateReturned =>
        /\ last.sid_in.kind \in {"given", "padded"} =>
              session_id = last.sid_in
        /\ (n_orch = 1 /\ last.started_in.kind = "none") =>
              started_at = _now_iso(now)
        /\ n_orch > 1 => started_at = last.started_in
        /\ last_activity_at = _now_iso(now)
        /\ last_activity_at.t >= started_at.t

\* C26 amended: a non-blank session_id is returned with its surrounding
\* whitespace removed, hence unchanged when it has none and unchanged by
\* every later invocation; started_at and last_activity_at are as stated.
C26_IdentityStable ==
    OrchestrateReturned =>
        /\ last.sid_in.kind \in {"given", "padded"} =>
              /\ session_id.kind = "given"
              /\ session_id.name = last.sid_in.name
        /\ last.sid_in.kind = "given" => session_id = last.sid_in
        /\ n_orch > 1 => session_id = last.sid_in
        /\ (n_orch = 1 /\ last.started_in.kind = "none") =>
              started_at = _now_iso(now)
        /\ n_orch > 1 => started_at = last.started_in
        /\ last_activity_at = _now_iso(now)
        /\ last_activity_at.t >= started_at.t

\* C26 witness: the third invocation of a session whose started_at an
\* earlier invocation set
C26_Witness_LaterInvocation ==
    /\ OrchestrateReturned
    /\ n_orch = 3
    /\ session_id = [kind |-> "given", name |-> "sess-1", t |-> 0]
    /\ \E i \in 1..Len(messages) :
          messages[i].content = "[session_orchestrator] started_at initialized"
    /\ started_at = last.started_in
    /\ started_at.t >= 1
    /\ last_activity_at.t > started_at.t

----------------------------------------------------------------------------
(* Properties of the trace log *)

\* the trace before the stage is the beginning of the trace after it
InputTraceKept ==
    /\ Len(messages) >= Len(last.msgs_in)
    /\ SubSeq(messages, 1, Len(last.msgs_in)) = last.msgs_in

\* entries the last stage appended
Appended == Len(messages) - Len(last.msgs_in)

\* the limits the last orchestrate invocation found reached
ReachedLimits ==
    (IF Val(turn_count) >= MAX_TURNS THEN {"max_turns reached"} ELSE {})
    \cup (IF now - started_at.t >= MAX_DURATION_SEC
          THEN {"max_duration reached"} ELSE {})

\* C27: the trace log is append-only through the Controller and the
\* Extractor: every invocation of either stage returns a messages list
\* that begins with its input messages; orchestrate appends at least one
\* entry, and when the session ends the last entry lists every limit that
\* was reached; extract appends exactly one entry on each of its paths.
C27_TraceAppendOnly ==
    /\ last.op = "orchestrate" =>
          /\ ~raised
          /\ InputTraceKept
          /\ Appended >= 1
          /\ end_session =>
                LET entry == messages[Len(messages)]
                IN /\ entry.content = "[session_orchestrator] end_session=True"
                   /\ {entry.meta.reasons[k] :
                          k \in 1..Len(entry.meta.reasons)} = ReachedLimits
                   /\ ReachedLimits # {}
    /\ last.op = "extract" =>
          /\ ~raised
          /\ InputTraceKept
          /\ Appended = 1

\* the same property for the invocations that return: the ones of the
\* Extractor that do not copy a bare-list overlay
C27_TraceAppendOnlyWhenReturned ==
    (~raised /\ last.op \in {"orchestrate", "extract"}) => C27_TraceAppendOnly

----------------------------------------------------------------------------
(* Properties of a session that is used after it ended *)

\* C28: once orchestrate has returned end_session = true for a session,
\* the next invocation on the state it returned (at a clock that has not
\* gone back) returns as well, with end_session = true.
C28_TerminationPermanent ==
    [][(OrchestrateReturned /\ end_session) =>
          (last'.op = "orchestrate" /\ ~raised' /\ end_session')]_vars

\* C28 witness: a session ended on its first turn by the duration limit
\* alone is invoked again and ends again, still short of the turn limit.
C28_Witness_EndedAgainByDuration ==
    /\ OrchestrateReturned
    /\ n_orch = 2
    /\ last.end_in
    /\ end_session
    /\ Val(turn_count) < MAX_TURNS
    /\ messages[Len(messages)].meta.reasons = <<"max_duration reached">>

----------------------------------------------------------------------------
(* Properties of a turn that arrives with end_session set *)

\* the snippets plan returned end with the persistence notice
NoticeAppended ==
    LET snippets == Val(retrieval).rag_snippets
    IN /\ snippets # <<>>
       /\ snippets[Len(snippets)] = PersistNotice

\* C29: in a turn that starts with end_session = true (the user action
\* is reset_save or reset_drop), end_session is still true once the
\* Controller has returned, and the snippets the Planner returns at the
\* end of the turn hold the persistence notice.
C29_IncomingEndKept ==
    user_action \in EndingActions =>
        /\ OrchestrateReturned => end_session
        /\ Planned => NoticeAppended

----------------------------------------------------------------------------
(* Properties of the residency fields *)

\* the trimmed text a profile holds under a field, None when the field is
\* missing, holds None, wraps None, or is blank
NonBlankText(profile, field) ==
    LET entry == ProfileGet(profile, field)
        text == IF entry = None THEN None
                ELSE IF "value" \in DOMAIN Val(entry) THEN Val(entry).value
                ELSE Some(Val(entry).scalar)
    IN IF text = None \/ Strip(Val(text)) = <<>> THEN None
       ELSE Some(Strip(Val(text)))

\* the residency of a merged profile: the non-blank text of the primary
\* field or, failing that, of the alias
Residency(merged_profile) ==
    IF merged_profile = None THEN None
    ELSE IF NonBlankText(Val(merged_profile), "residency_sgg_code") # None
    THEN NonBlankText(Val(merged_profile), "residency_sgg_code")
    ELSE NonBlankText(Val(merged_profile), "region_gu")

\* C30: the region filter of a search is the non-blank residency value of
\* the merged profile, taken from residency_sgg_code or, when that field
\* holds no non-blank value, from region_gu: a primary field that is
\* present but blank does not hide a non-blank alias.
C30_RegionFromPrimaryOrAlias ==
    (Planned /\ last.embed_called) =>
        last.region_filter = Residency(Val(retrieval).profile_ctx)

\* the same property for the profiles whose primary field is missing,
\* holds None, or holds a non-blank value
C30_RegionFromUsablePrimaryOrAlias ==
    (/\ Planned /\ last.embed_called
     /\ Val(retrieval).profile_ctx # None
     /\ \/ ProfileGet(Val(Val(retrieval).profile_ctx), "residency_sgg_code")
              = None
        \/ NonBlankText(Val(Val(retrieval).profile_ctx), "residency_sgg_code")
              # None)
    => C30_RegionFromPrimaryOrAlias

====
